---- MODULE Spec2Model ----
(***************************************************************************)
(* Model of the trace store (prover/src/machine2/trace/mod.rs: Traces) and *)
(* of the commit / constraint-check pipeline (prover/src/test_utils.rs:    *)
(* commit_traces, assert_chip) of the nexus-zkvm prover.                   *)
(*                                                                         *)
(* Vec<T> is modelled as a function with domain 0..len-1, so that the      *)
(* source's zero-based indexing is kept.  A panic (assert!, assert_eq!,    *)
(* expect, an index out of bounds) ends the program: the component that    *)
(* panicked moves to a terminal "panicked" position.                       *)
(***************************************************************************)
EXTENDS Integers, Sequences, FiniteSets, TLC

-----------------------------------------------------------------------------
(* Program constants *)

\* modulus of stwo's M31 BaseField, 2^31 - 1
P == 2147483647

\* stwo_prover::core::backend::simd::m31::LOG_N_LANES
LOG_N_LANES == 4

\* smallest log_size of a preprocessed trace (assert at mod.rs:52)
MIN_PREPROCESSED_LOG_SIZE == 8

\* number of rows new_preprocessed_trace fills in Range256 (mod.rs:58)
RANGE256_ROWS == 256

-----------------------------------------------------------------------------
(* Bounds of the model *)

\* log_size arguments tried by the constructors: 0..MaxLogSize
MaxLogSize == 9

\* number of trace operations after construction
MaxOps == 1

\* lengths of byte slices / type-level widths N tried: 0..MaxValueLen
MaxValueLen == 5

-----------------------------------------------------------------------------
(* Column schemas (machine2/column.rs) *)

\* logical columns of the main schema
Columns == {"IsAdd", "CarryFlag", "ValueA"}

\* Column::size
ColumnSize(col) ==
    CASE col = "IsAdd" -> 1
      [] col = "CarryFlag" -> 2
      [] col = "ValueA" -> 4

\* Column::offset
ColumnOffset(col) ==
    CASE col = "IsAdd" -> 0
      [] col = "CarryFlag" -> 1
      [] col = "ValueA" -> 3

\* Column::COLUMNS_NUM: the number of raw columns of the main schema
COLUMNS_NUM == 7

\* logical columns of the preprocessed schema, one raw column each
PreprocessedColumns == {"IsFirst", "Range256", "Reserved"}

\* PreprocessedColumn::offset
PreprocessedOffset(col) ==
    CASE col = "IsFirst" -> 0
      [] col = "Range256" -> 1
      [] col = "Reserved" -> 2

\* PreprocessedColumn::COLUMNS_NUM
PREPROCESSED_COLUMNS_NUM == 3

-----------------------------------------------------------------------------
(* Field and vectors *)

\* BaseField::from(u32) / BaseField::from(usize): reduction modulo P
BaseFieldFrom(x) == x % P

\* BaseField::zero(), BaseField::one()
BaseFieldZero == 0
BaseFieldOne == 1

\* vec![x; n]
VecOf(x, n) == [i \in 0..(n - 1) |-> x]

\* Vec::len
VecLen(v) == Cardinality(DOMAIN v)

\* the value a panicking call leaves in place of its result
NoValue == [none |-> TRUE]

\* no vector of evaluations exists yet
NoEvals == [c \in {-1} |-> NoValue]

\* no Traces value exists (before construction, or the constructor panicked)
NoTraces == [cols |-> <<>>, log_size |-> -1]

-----------------------------------------------------------------------------
(* Traces: constructors *)

\* Traces::new with columns one row short (1 << log_size miscomputed)
TracesNewShortColumns(log_size) ==
    IF ~(log_size >= LOG_N_LANES)
    THEN [result |-> "panic", traces |-> NoTraces]
    ELSE [result |-> "ok",
          traces |-> [cols |-> VecOf(VecOf(BaseFieldZero, 2 ^ log_size - 1), COLUMNS_NUM),
                      log_size |-> log_size]]

\* Traces::new asserting log_size > LOG_N_LANES
TracesNewStrictFloor(log_size) ==
    IF ~(log_size > LOG_N_LANES)
    THEN [result |-> "panic", traces |-> NoTraces]
    ELSE [result |-> "ok",
          traces |-> [cols |-> VecOf(VecOf(BaseFieldZero, 2 ^ log_size), COLUMNS_NUM),
                      log_size |-> log_size]]

\* Traces::new.  result "panic" when the assert fails.
TracesNew(log_size) ==
    IF ~(log_size >= LOG_N_LANES)
    THEN [result |-> "panic", traces |-> NoTraces]
    ELSE [result |-> "ok",
          traces |-> [cols |-> VecOf(VecOf(BaseFieldZero, 2 ^ log_size), COLUMNS_NUM),
                      log_size |-> log_size]]

\* the loop at mod.rs:58-60 running over 0..=256
FillRange256Inclusive(cols) ==
    [cols EXCEPT ![PreprocessedOffset("Range256")] =
        [row_idx \in DOMAIN @ |->
            IF row_idx \in 0..RANGE256_ROWS THEN BaseFieldFrom(row_idx)
            ELSE @[row_idx]]]

\* the loop at mod.rs:58-60: every row_idx in 0..256 (exclusive) of Range256 is
\* assigned BaseField::from(row_idx); the assignments are to different cells
FillRange256(cols) ==
    [cols EXCEPT ![PreprocessedOffset("Range256")] =
        [row_idx \in DOMAIN @ |->
            IF row_idx \in 0..(RANGE256_ROWS - 1) THEN BaseFieldFrom(row_idx)
            ELSE @[row_idx]]]

\* Traces::new_preprocessed_trace
TracesNewPreprocessedTrace(log_size) ==
    IF ~(log_size >= LOG_N_LANES) \/ ~(log_size >= MIN_PREPROCESSED_LOG_SIZE)
    THEN [result |-> "panic", traces |-> NoTraces]
    ELSE LET zeroed == VecOf(VecOf(BaseFieldZero, 2 ^ log_size), PREPROCESSED_COLUMNS_NUM)
             first == [zeroed EXCEPT ![PreprocessedOffset("IsFirst")][0] = BaseFieldOne]
         IN [result |-> "ok",
             traces |-> [cols |-> FillRange256(first), log_size |-> log_size]]

-----------------------------------------------------------------------------
(* Traces: row access *)

\* Traces::column::<N>: a copy of the N slots of col at row
TracesColumn(t, row, col, N) ==
    IF ColumnSize(col) # N
    THEN [result |-> "panic", out |-> NoValue]
    ELSE IF \E i \in 0..(N - 1) :
                \/ ColumnOffset(col) + i \notin DOMAIN t.cols
                \/ row \notin DOMAIN t.cols[ColumnOffset(col) + i]
         THEN [result |-> "panic", out |-> NoValue]
         ELSE [result |-> "ok",
               out |-> [i \in 0..(N - 1) |-> t.cols[ColumnOffset(col) + i][row]]]

\* Traces::column_mut keeping only the columns it hands out
TracesColumnMutTruncating(t, row, col, N, vals) ==
    IF ColumnSize(col) # N
    THEN [result |-> "panic", traces |-> t]
    ELSE IF \E i \in 0..(N - 1) :
                \/ ColumnOffset(col) + i \notin DOMAIN t.cols
                \/ row \notin DOMAIN t.cols[ColumnOffset(col) + i]
         THEN [result |-> "panic", traces |-> t]
         ELSE [result |-> "ok",
               traces |-> [t EXCEPT !.cols =
                   [c \in 0..(ColumnOffset(col) + N - 1) |->
                       IF c \in ColumnOffset(col)..(ColumnOffset(col) + N - 1)
                       THEN [t.cols[c] EXCEPT ![row] = vals[c - ColumnOffset(col)]]
                       ELSE t.cols[c]]]]

\* Traces::column_mut::<N>, and the caller's assignment of vals through the
\* N references it returns
TracesColumnMut(t, row, col, N, vals) ==
    IF ColumnSize(col) # N
    THEN [result |-> "panic", traces |-> t]
    ELSE IF \E i \in 0..(N - 1) :
                \/ ColumnOffset(col) + i \notin DOMAIN t.cols
                \/ row \notin DOMAIN t.cols[ColumnOffset(col) + i]
         THEN [result |-> "panic", traces |-> t]
         ELSE [result |-> "ok",
               traces |-> [t EXCEPT !.cols =
                   [c \in DOMAIN t.cols |->
                       IF c \in ColumnOffset(col)..(ColumnOffset(col) + N - 1)
                       THEN [t.cols[c] EXCEPT ![row] = vals[c - ColumnOffset(col)]]
                       ELSE t.cols[c]]]]

\* the loop of fill_columns writing the first byte into every slot
RECURSIVE FillColumnsLoopFirstByte(_, _, _, _, _)
FillColumnsLoopFirstByte(t, i, row, value, col) ==
    IF i >= VecLen(value) THEN [result |-> "ok", traces |-> t]
    ELSE IF \/ ColumnOffset(col) + i \notin DOMAIN t.cols
            \/ row \notin DOMAIN t.cols[ColumnOffset(col) + i]
         THEN [result |-> "panic", traces |-> t]
         ELSE FillColumnsLoopFirstByte(
                 [t EXCEPT !.cols[ColumnOffset(col) + i][row] = BaseFieldFrom(value[0])],
                 i + 1, row, value, col)

\* the loop of fill_columns (mod.rs:102-104) from index i on; an index out of
\* bounds panics after the earlier iterations have written
RECURSIVE FillColumnsLoop(_, _, _, _, _)
FillColumnsLoop(t, i, row, value, col) ==
    IF i >= VecLen(value) THEN [result |-> "ok", traces |-> t]
    ELSE IF \/ ColumnOffset(col) + i \notin DOMAIN t.cols
            \/ row \notin DOMAIN t.cols[ColumnOffset(col) + i]
         THEN [result |-> "panic", traces |-> t]
         ELSE FillColumnsLoop(
                 [t EXCEPT !.cols[ColumnOffset(col) + i][row] = BaseFieldFrom(value[i])],
                 i + 1, row, value, col)

\* Traces::fill_columns rejecting only slices longer than the column
TracesFillColumnsShortAccepted(t, row, value, col) ==
    IF ColumnSize(col) < VecLen(value)
    THEN [result |-> "panic", traces |-> t]
    ELSE FillColumnsLoop(t, 0, row, value, col)

\* Traces::fill_columns
TracesFillColumns(t, row, value, col) ==
    IF ColumnSize(col) # VecLen(value)
    THEN [result |-> "panic", traces |-> t]
    ELSE FillColumnsLoop(t, 0, row, value, col)

\* the loop of fill_effective_columns with the selector's branches swapped
RECURSIVE FillEffectiveColumnsLoopSwapped(_, _, _, _, _, _)
FillEffectiveColumnsLoopSwapped(t, i, row, value, col, selector) ==
    IF i >= VecLen(value) THEN [result |-> "ok", traces |-> t]
    ELSE IF \/ ColumnOffset(col) + i \notin DOMAIN t.cols
            \/ row \notin DOMAIN t.cols[ColumnOffset(col) + i]
         THEN [result |-> "panic", traces |-> t]
         ELSE FillEffectiveColumnsLoopSwapped(
                 [t EXCEPT !.cols[ColumnOffset(col) + i][row] =
                     IF selector THEN BaseFieldFrom(value[i]) ELSE BaseFieldZero],
                 i + 1, row, value, col, selector)

\* the loop of fill_effective_columns (mod.rs:119-125) from index i on
RECURSIVE FillEffectiveColumnsLoop(_, _, _, _, _, _)
FillEffectiveColumnsLoop(t, i, row, value, col, selector) ==
    IF i >= VecLen(value) THEN [result |-> "ok", traces |-> t]
    ELSE IF \/ ColumnOffset(col) + i \notin DOMAIN t.cols
            \/ row \notin DOMAIN t.cols[ColumnOffset(col) + i]
         THEN [result |-> "panic", traces |-> t]
         ELSE FillEffectiveColumnsLoop(
                 [t EXCEPT !.cols[ColumnOffset(col) + i][row] =
                     IF selector THEN BaseFieldZero ELSE BaseFieldFrom(value[i])],
                 i + 1, row, value, col, selector)

\* Traces::fill_effective_columns blanking the whole row when the selector is set
TracesFillEffectiveColumnsRowBlanked(t, row, value, col, selector) ==
    IF ColumnSize(col) # VecLen(value)
    THEN [result |-> "panic", traces |-> t]
    ELSE IF selector /\ \A c \in DOMAIN t.cols : row \in DOMAIN t.cols[c]
         THEN FillEffectiveColumnsLoop(
                 [t EXCEPT !.cols = [c \in DOMAIN t.cols |->
                                        [t.cols[c] EXCEPT ![row] = BaseFieldZero]]],
                 0, row, value, col, selector)
         ELSE FillEffectiveColumnsLoop(t, 0, row, value, col, selector)

\* Traces::fill_effective_columns
TracesFillEffectiveColumns(t, row, value, col, selector) ==
    IF ColumnSize(col) # VecLen(value)
    THEN [result |-> "panic", traces |-> t]
    ELSE FillEffectiveColumnsLoop(t, 0, row, value, col, selector)

-----------------------------------------------------------------------------
(* Domain reordering (machine2/trace/utils.rs) *)

\* log2 of a power of two
RECURSIVE Log2(_)
Log2(n) == IF n <= 1 THEN 0 ELSE 1 + Log2(n \div 2)

\* utils::coset_order_to_circle_domain_order
CosetOrderToCircleDomainOrder(values) ==
    LET n == VecLen(values)
    IN [i \in 0..(n - 1) |->
           IF i < n \div 2 THEN values[2 * i]
           ELSE values[n - 1 - 2 * (i - n \div 2)]]

\* the index i with its low "bits" bits reversed
RECURSIVE BitReverseIndex(_, _)
BitReverseIndex(i, bits) ==
    IF bits = 0 THEN 0
    ELSE (i % 2) * (2 ^ (bits - 1)) + BitReverseIndex(i \div 2, bits - 1)

\* utils::bit_reverse
BitReverse(v) ==
    LET bits == Log2(VecLen(v))
    IN [i \in DOMAIN v |-> v[BitReverseIndex(i, bits)]]

\* the closure both get_base_column and circle_evaluation map over columns
ReorderColumn(column_in_trace_order) ==
    BitReverse(CosetOrderToCircleDomainOrder(column_in_trace_order))

\* Traces::get_base_column starting one raw column late
TracesGetBaseColumnShifted(t, col, N) ==
    IF ColumnSize(col) # N
    THEN [result |-> "panic", out |-> NoValue]
    ELSE IF ColumnOffset(col) + 1 > VecLen(t.cols)
         THEN [result |-> "panic", out |-> NoValue]
         ELSE LET avail == {c \in DOMAIN t.cols :
                               c >= ColumnOffset(col) + 1 /\ c < ColumnOffset(col) + 1 + N}
              IN IF Cardinality(avail) # N
                 THEN [result |-> "panic", out |-> NoValue]
                 ELSE [result |-> "ok",
                       out |-> [i \in 0..(N - 1) |->
                                   ReorderColumn(t.cols[ColumnOffset(col) + 1 + i])]]

\* Traces::get_base_column::<N>
TracesGetBaseColumn(t, col, N) ==
    IF ColumnSize(col) # N
    THEN [result |-> "panic", out |-> NoValue]
    ELSE IF ColumnOffset(col) > VecLen(t.cols)
         THEN [result |-> "panic", out |-> NoValue]
         ELSE LET avail == {c \in DOMAIN t.cols :
                               c >= ColumnOffset(col) /\ c < ColumnOffset(col) + N}
              IN IF Cardinality(avail) # N
                 THEN [result |-> "panic", out |-> NoValue]
                 ELSE [result |-> "ok",
                       out |-> [i \in 0..(N - 1) |->
                                   ReorderColumn(t.cols[ColumnOffset(col) + i])]]

\* Traces::circle_evaluation: every column reordered, over the canonic coset
\* of log_size
TracesCircleEvaluation(t) ==
    [c \in DOMAIN t.cols |->
        [domain |-> t.log_size, values |-> ReorderColumn(t.cols[c])]]

-----------------------------------------------------------------------------
(* Commitment scheme and transcript (stwo).  Blake2s is stood for by an   *)
(* arithmetic digest: equal inputs give equal digests, and the digest of a *)
(* transcript depends on every root mixed in and on their order.           *)

\* modulus of the stand-in digests; products of two residues fit an integer
HashModulus == 2 ^ 15 - 19

\* the sum of f(i) for i in lo..hi
RECURSIVE SumRange(_, _, _)
SumRange(f, lo, hi) ==
    IF lo > hi THEN 0
    ELSE IF lo = hi THEN f[lo]
    ELSE LET mid == (lo + hi) \div 2
         IN SumRange(f, lo, mid) + SumRange(f, mid + 1, hi)

\* digest of one evaluation: depends on every value and on its position
EvaluationDigest(eval) ==
    LET n == VecLen(eval.values)
        term == [i \in 0..(n - 1) |->
                    ((eval.values[i] % HashModulus) * ((i + 1) % HashModulus)) % HashModulus]
    IN (SumRange(term, 0, n - 1) + eval.domain + 1) % HashModulus

\* tree_builder.extend_evals(evals) and the Merkle root tree_builder.commit
\* computes over them
MerkleRoot(evals) ==
    LET n == VecLen(evals)
        term == [c \in 0..(n - 1) |-> (EvaluationDigest(evals[c]) * (c + 2)) % HashModulus]
    IN (SumRange(term, 0, n - 1) + n) % HashModulus

\* Blake2sChannel::default()
ChannelDefault == [digest |-> 0, n_draws |-> 0]

\* Blake2sMerkleChannel::mix_root, called by tree_builder.commit(channel)
MixRoot(channel, root) ==
    [digest |-> (channel.digest * 31 + root + 1) % HashModulus, n_draws |-> 0]

\* Channel::draw_felt: the element drawn, and the channel after the draw
DrawFelt(channel) ==
    [felt |-> (channel.digest * 17 + channel.n_draws * 101 + 7) % HashModulus,
     channel |-> [channel EXCEPT !.n_draws = @ + 1]]

\* LookupElements::draw(channel): z and alpha, drawn in this order.  The call
\* has no failure path: it draws from whatever the channel holds.
LookupElementsDraw(channel) ==
    LET d1 == DrawFelt(channel)
        d2 == DrawFelt(d1.channel)
    IN [result |-> "ok",
        elements |-> [z |-> d1.felt, alpha |-> d2.felt],
        channel |-> d2.channel]

-----------------------------------------------------------------------------
(* The chip C: MachineChip (machine2/traits.rs) *)

\* the lookup term of one row: the challenge combined with the row's value
LogupTerm(elements, value) ==
    (elements.z + elements.alpha * ((value % HashModulus) + 1)) % HashModulus

\* C::fill_interaction_trace(traces, preprocessed_trace, lookup_elements): one
\* column, the lookup term of ValueA's low byte at every row
ChipFillInteractionTrace(t, preprocessed, elements) ==
    LET column == [row \in DOMAIN t.cols[ColumnOffset("ValueA")] |->
                      LogupTerm(elements, t.cols[ColumnOffset("ValueA")][row])]
    IN [c \in 0..0 |-> [domain |-> t.log_size, values |-> ReorderColumn(column)]]

\* C::add_constraints(eval, trace_eval, lookup_elements): the identities it
\* registers, each given by whether it vanishes at domain index i.  evals is
\* the TreeVec (preprocessed, main, interaction).
ChipAddConstraints(evals, i, elements) ==
    LET is_add == evals[1][ColumnOffset("IsAdd")].values[i]
        value_a == evals[1][ColumnOffset("ValueA")].values[i]
    IN << \* is_add * (is_add - 1) = 0
          is_add \in {BaseFieldZero, BaseFieldOne},
          \* the interaction column holds the lookup term of the row
          /\ 0 \in DOMAIN evals[2]
          /\ evals[2][0].values[i] = LogupTerm(elements, value_a) >>

\* assert_constraints(&trace_polys, CanonicCoset::new(log_size), ..): panics
\* when an identity does not vanish at some point of the domain
AssertConstraints(evals, log_size, elements) ==
    IF \A i \in 0..(2 ^ log_size - 1) :
          \A k \in DOMAIN ChipAddConstraints(evals, i, elements) :
              ChipAddConstraints(evals, i, elements)[k]
    THEN "ok" ELSE "panic"

-----------------------------------------------------------------------------
(* The test-only shortcut *)

\* the closures add_constraints_calls handed to assert_as_original_trace
ConstraintClosures == {"is_add_boolean", "carry_flag_boolean"}

\* add_constraints_calls(&mut eval, &trace_eval): the identities the closure
\* registers, each given by whether it vanishes at domain index i of the
\* TreeVec evals
ClosureConstraints(closure, evals, i) ==
    CASE closure = "is_add_boolean" ->
             << evals[1][ColumnOffset("IsAdd")].values[i] \in {BaseFieldZero, BaseFieldOne} >>
      [] closure = "carry_flag_boolean" ->
             << evals[1][ColumnOffset("CarryFlag")].values[i] \in {BaseFieldZero, BaseFieldOne},
                evals[1][ColumnOffset("CarryFlag") + 1].values[i]
                    \in {BaseFieldZero, BaseFieldOne} >>

\* Traces::assert_as_original_trace(self, add_constraints_calls): out is the
\* TreeVec handed to assert_constraints, with the closure
TracesAssertAsOriginalTrace(t, closure) ==
    LET evaluated == TracesCircleEvaluation(t)
        made == TracesNewPreprocessedTrace(t.log_size)
    IN IF made.result = "panic"
       THEN [result |-> "panic", out |-> NoValue]
       ELSE LET evals == [tree \in 0..2 |->
                             CASE tree = 0 -> TracesCircleEvaluation(made.traces)
                               [] tree = 1 -> evaluated
                               [] tree = 2 -> <<>>]
            IN [result |-> IF \A i \in 0..(2 ^ t.log_size - 1) :
                                  \A k \in DOMAIN ClosureConstraints(closure, evals, i) :
                                      ClosureConstraints(closure, evals, i)[k]
                           THEN "ok" ELSE "panic",
                out |-> [evals |-> evals, constraints |-> closure]]

-----------------------------------------------------------------------------
(* State *)

VARIABLES
    \* the trace store under test
    traces,     \* the Traces value, NoTraces when there is none
    status,     \* "init" before construction, then "ready", or "panicked"
    last,       \* the last call on the trace store: its arguments and outcome
    nops,       \* number of calls made since construction
    \* the pipeline, per run
    pc,                   \* position of the run in assert_chip / commit_traces
    main,                 \* assert_chip's argument traces
    custom_preprocessed,  \* assert_chip's argument custom_preprocessed (NoTraces: None)
    commitment_scheme,    \* roots of the trees committed so far, in tree order
    prover_channel,       \* the transcript: roots mixed in and felts drawn
    lookup_elements,      \* the drawn LookupElements, NoValue before the draw
    preprocessed_trace,   \* the preprocessed Traces of the run
    interaction_trace,    \* what fill_interaction_trace returned
    trace_evals,          \* the TreeVec assert_chip hands to assert_constraints
    fill_arg,             \* lookup elements passed to C::fill_interaction_trace
    check_arg,            \* lookup elements passed to C::add_constraints
    steps                 \* the steps the run has performed, in order

storeVars == <<traces, status, last, nops>>

pipeVars == <<pc, main, custom_preprocessed, commitment_scheme, prover_channel,
              lookup_elements, preprocessed_trace, interaction_trace, trace_evals,
              fill_arg, check_arg, steps>>

vars == <<traces, status, last, nops, pc, main, custom_preprocessed,
          commitment_scheme, prover_channel, lookup_elements, preprocessed_trace,
          interaction_trace, trace_evals, fill_arg, check_arg, steps>>

-----------------------------------------------------------------------------
(* Inputs of the trace-store calls *)

\* rows tried on a trace: the first and the last
RowSamples(t) == IF t = NoTraces THEN {} ELSE {0, 2 ^ t.log_size - 1}

\* multipliers that generate the byte slices tried
ByteSeeds == {7, 255}

\* a byte slice of length n with pairwise different bytes
ByteSeq(n, seed) == [i \in 0..(n - 1) |-> (seed * (i + 1)) % 256]

\* the byte slices of length n tried
ValueSamples(n) == {ByteSeq(n, seed) : seed \in ByteSeeds}

\* the field elements a caller assigns through column_mut's references
FieldSeq(n) == [i \in 0..(n - 1) |-> P - 1 - i]

\* a record of a call: what was called, with what, and how it ended
Call(op, log_size, row, col, n, value, selector, result, out) ==
    [op |-> op, log_size |-> log_size, row |-> row, col |-> col, n |-> n,
     value |-> value, selector |-> selector, result |-> result, out |-> out]

NoCall == Call("none", -1, -1, "none", -1, <<>>, FALSE, "ok", NoValue)

\* the position after a call that ended with result
StatusAfter(result) == IF result = "ok" THEN "ready" ELSE "panicked"

-----------------------------------------------------------------------------
(* Trace-store actions *)

\* let t = Traces::new(log_size)
New(log_size) ==
    /\ status = "init"
    /\ LET r == TracesNew(log_size)
       IN /\ traces' = r.traces
          /\ status' = StatusAfter(r.result)
          /\ last' = Call("new", log_size, -1, "none", -1, <<>>, FALSE, r.result, NoValue)
    /\ nops' = 0
    /\ UNCHANGED pipeVars

\* let t = Traces::new_preprocessed_trace(log_size)
NewPreprocessedTrace(log_size) ==
    /\ status = "init"
    /\ LET r == TracesNewPreprocessedTrace(log_size)
       IN /\ traces' = r.traces
          /\ status' = StatusAfter(r.result)
          /\ last' = Call("new_preprocessed_trace", log_size, -1, "none", -1, <<>>,
                          FALSE, r.result, NoValue)
    /\ nops' = 0
    /\ UNCHANGED pipeVars

\* t.column::<N>(row, col)
DoColumn(row, col, N) ==
    /\ status = "ready"
    /\ nops < MaxOps
    /\ LET r == TracesColumn(traces, row, col, N)
       IN /\ status' = StatusAfter(r.result)
          /\ last' = Call("column", -1, row, col, N, <<>>, FALSE, r.result, r.out)
    /\ nops' = nops + 1
    /\ UNCHANGED traces
    /\ UNCHANGED pipeVars

\* for (slot, v) in t.column_mut::<N>(row, col).into_iter().zip(vals) { *slot = v }
DoColumnMut(row, col, N) ==
    /\ status = "ready"
    /\ nops < MaxOps
    /\ LET r == TracesColumnMut(traces, row, col, N, FieldSeq(N))
       IN /\ traces' = r.traces
          /\ status' = StatusAfter(r.result)
          /\ last' = Call("column_mut", -1, row, col, N, FieldSeq(N), FALSE,
                          r.result, NoValue)
    /\ nops' = nops + 1
    /\ UNCHANGED pipeVars

\* t.fill_columns(row, value, col)
DoFillColumns(row, value, col) ==
    /\ status = "ready"
    /\ nops < MaxOps
    /\ LET r == TracesFillColumns(traces, row, value, col)
       IN /\ traces' = r.traces
          /\ status' = StatusAfter(r.result)
          /\ last' = Call("fill_columns", -1, row, col, VecLen(value), value, FALSE,
                          r.result, NoValue)
    /\ nops' = nops + 1
    /\ UNCHANGED pipeVars

\* t.fill_effective_columns(row, value, col, selector)
DoFillEffectiveColumns(row, value, col, selector) ==
    /\ status = "ready"
    /\ nops < MaxOps
    /\ LET r == TracesFillEffectiveColumns(traces, row, value, col, selector)
       IN /\ traces' = r.traces
          /\ status' = StatusAfter(r.result)
          /\ last' = Call("fill_effective_columns", -1, row, col, VecLen(value), value,
                          selector, r.result, NoValue)
    /\ nops' = nops + 1
    /\ UNCHANGED pipeVars

\* t.get_base_column::<N>(col)
DoGetBaseColumn(col, N) ==
    /\ status = "ready"
    /\ nops < MaxOps
    /\ LET r == TracesGetBaseColumn(traces, col, N)
       IN /\ status' = StatusAfter(r.result)
          /\ last' = Call("get_base_column", -1, -1, col, N, <<>>, FALSE, r.result, r.out)
    /\ nops' = nops + 1
    /\ UNCHANGED traces
    /\ UNCHANGED pipeVars

\* t.circle_evaluation()
DoCircleEvaluation ==
    /\ status = "ready"
    /\ nops < MaxOps
    /\ status' = "ready"
    /\ last' = Call("circle_evaluation", -1, -1, "none", -1, <<>>, FALSE, "ok",
                    TracesCircleEvaluation(traces))
    /\ nops' = nops + 1
    /\ UNCHANGED traces
    /\ UNCHANGED pipeVars

\* t.assert_as_original_trace(closure): t is moved into the call
DoAssertAsOriginalTrace(closure) ==
    /\ status = "ready"
    /\ nops < MaxOps
    /\ LET r == TracesAssertAsOriginalTrace(traces, closure)
       IN /\ status' = IF r.result = "ok" THEN "consumed" ELSE "panicked"
          /\ last' = Call("assert_as_original_trace", traces.log_size, -1, "none", -1,
                          <<>>, FALSE, r.result, r.out)
    /\ traces' = NoTraces
    /\ nops' = nops + 1
    /\ UNCHANGED pipeVars

\* no pipeline run exists while the trace store is exercised
RunIds == {"a", "b"}

PipeIdle ==
    /\ pc = [r \in RunIds |-> "idle"]
    /\ main = [r \in RunIds |-> NoTraces]
    /\ custom_preprocessed = [r \in RunIds |-> NoTraces]
    /\ commitment_scheme = [r \in RunIds |-> <<>>]
    /\ prover_channel = [r \in RunIds |-> NoValue]
    /\ lookup_elements = [r \in RunIds |-> NoValue]
    /\ preprocessed_trace = [r \in RunIds |-> NoTraces]
    /\ interaction_trace = [r \in RunIds |-> NoEvals]
    /\ trace_evals = [r \in RunIds |-> NoEvals]
    /\ fill_arg = [r \in RunIds |-> NoValue]
    /\ check_arg = [r \in RunIds |-> NoValue]
    /\ steps = [r \in RunIds |-> <<>>]

-----------------------------------------------------------------------------
(* Pipeline actions: assert_chip::<C>(traces, custom_preprocessed), which  *)
(* calls commit_traces::<C> and then checks the constraints                *)

\* commit_traces taking up a channel another run has already written to
BeginSharedChannel(r) ==
    /\ pc[r] = "start"
    /\ commitment_scheme' = [commitment_scheme EXCEPT ![r] = <<>>]
    /\ prover_channel' = [prover_channel EXCEPT ![r] =
          IF \E q \in DOMAIN prover_channel : prover_channel[q] # NoValue
          THEN prover_channel[CHOOSE q \in DOMAIN prover_channel : prover_channel[q] # NoValue]
          ELSE ChannelDefault]
    /\ pc' = [pc EXCEPT ![r] = "commit_preprocessed"]
    /\ UNCHANGED <<main, custom_preprocessed, lookup_elements, preprocessed_trace,
                   interaction_trace, trace_evals, fill_arg, check_arg, steps>>
    /\ UNCHANGED storeVars

\* assert_chip is entered: test_params, and commit_traces' new commitment
\* scheme and default channel (test_utils.rs:58-60)
Begin(r) ==
    /\ pc[r] = "start"
    /\ commitment_scheme' = [commitment_scheme EXCEPT ![r] = <<>>]
    /\ prover_channel' = [prover_channel EXCEPT ![r] = ChannelDefault]
    /\ pc' = [pc EXCEPT ![r] = "commit_preprocessed"]
    /\ UNCHANGED <<main, custom_preprocessed, lookup_elements, preprocessed_trace,
                   interaction_trace, trace_evals, fill_arg, check_arg, steps>>
    /\ UNCHANGED storeVars

\* commit_traces generating the preprocessed trace with Traces::new
CommitPreprocessedZeroed(r) ==
    /\ pc[r] = "commit_preprocessed"
    /\ LET made == IF custom_preprocessed[r] # NoTraces
                   THEN [result |-> "ok", traces |-> custom_preprocessed[r]]
                   ELSE TracesNew(main[r].log_size)
           root == MerkleRoot(TracesCircleEvaluation(made.traces))
       IN IF made.result = "panic"
          THEN /\ pc' = [pc EXCEPT ![r] = "panicked"]
               /\ UNCHANGED <<commitment_scheme, prover_channel, preprocessed_trace, steps>>
          ELSE /\ preprocessed_trace' = [preprocessed_trace EXCEPT ![r] = made.traces]
               /\ commitment_scheme' = [commitment_scheme EXCEPT ![r] = Append(@, root)]
               /\ prover_channel' = [prover_channel EXCEPT ![r] = MixRoot(@, root)]
               /\ steps' = [steps EXCEPT ![r] = Append(@, "commit_preprocessed")]
               /\ pc' = [pc EXCEPT ![r] = "commit_main"]
    /\ UNCHANGED <<main, custom_preprocessed, lookup_elements, interaction_trace,
                   trace_evals, fill_arg, check_arg>>
    /\ UNCHANGED storeVars

\* test_utils.rs:62-67: the preprocessed trace is the custom one or a generated
\* one (which may panic), and is committed
CommitPreprocessed(r) ==
    /\ pc[r] = "commit_preprocessed"
    /\ LET made == IF custom_preprocessed[r] # NoTraces
                   THEN [result |-> "ok", traces |-> custom_preprocessed[r]]
                   ELSE TracesNewPreprocessedTrace(main[r].log_size)
           root == MerkleRoot(TracesCircleEvaluation(made.traces))
       IN IF made.result = "panic"
          THEN /\ pc' = [pc EXCEPT ![r] = "panicked"]
               /\ UNCHANGED <<commitment_scheme, prover_channel, preprocessed_trace, steps>>
          ELSE /\ preprocessed_trace' = [preprocessed_trace EXCEPT ![r] = made.traces]
               /\ commitment_scheme' = [commitment_scheme EXCEPT ![r] = Append(@, root)]
               /\ prover_channel' = [prover_channel EXCEPT ![r] = MixRoot(@, root)]
               /\ steps' = [steps EXCEPT ![r] = Append(@, "commit_preprocessed")]
               /\ pc' = [pc EXCEPT ![r] = "commit_main"]
    /\ UNCHANGED <<main, custom_preprocessed, lookup_elements, interaction_trace,
                   trace_evals, fill_arg, check_arg>>
    /\ UNCHANGED storeVars

\* commit_traces building the main tree without committing it
CommitMainUncommitted(r) ==
    /\ pc[r] = "commit_main"
    /\ steps' = [steps EXCEPT ![r] = Append(@, "commit_main")]
    /\ pc' = [pc EXCEPT ![r] = "draw"]
    /\ UNCHANGED <<main, custom_preprocessed, commitment_scheme, prover_channel,
                   lookup_elements, preprocessed_trace, interaction_trace, trace_evals,
                   fill_arg, check_arg>>
    /\ UNCHANGED storeVars

\* test_utils.rs:70-72: the main trace is committed into the same channel
CommitMain(r) ==
    /\ pc[r] = "commit_main"
    /\ LET root == MerkleRoot(TracesCircleEvaluation(main[r]))
       IN /\ commitment_scheme' = [commitment_scheme EXCEPT ![r] = Append(@, root)]
          /\ prover_channel' = [prover_channel EXCEPT ![r] = MixRoot(@, root)]
    /\ steps' = [steps EXCEPT ![r] = Append(@, "commit_main")]
    /\ pc' = [pc EXCEPT ![r] = "draw"]
    /\ UNCHANGED <<main, custom_preprocessed, lookup_elements, preprocessed_trace,
                   interaction_trace, trace_evals, fill_arg, check_arg>>
    /\ UNCHANGED storeVars

\* commit_traces drawing the lookup elements before the main trace is committed
DrawLookupElementsEarly(r) ==
    /\ pc[r] = "commit_main"
    /\ LET drawn == LookupElementsDraw(prover_channel[r])
       IN /\ lookup_elements' = [lookup_elements EXCEPT ![r] = drawn.elements]
          /\ prover_channel' = [prover_channel EXCEPT ![r] = drawn.channel]
    /\ steps' = [steps EXCEPT ![r] = Append(@, "draw")]
    /\ pc' = [pc EXCEPT ![r] = "fill_interaction"]
    /\ UNCHANGED <<main, custom_preprocessed, commitment_scheme, preprocessed_trace,
                   interaction_trace, trace_evals, fill_arg, check_arg>>
    /\ UNCHANGED storeVars

\* test_utils.rs:73: let lookup_elements = LookupElements::draw(&mut prover_channel)
DrawLookupElements(r) ==
    /\ pc[r] = "draw"
    /\ LET drawn == LookupElementsDraw(prover_channel[r])
       IN /\ lookup_elements' = [lookup_elements EXCEPT ![r] = drawn.elements]
          /\ prover_channel' = [prover_channel EXCEPT ![r] = drawn.channel]
    /\ steps' = [steps EXCEPT ![r] = Append(@, "draw")]
    /\ pc' = [pc EXCEPT ![r] = "fill_interaction"]
    /\ UNCHANGED <<main, custom_preprocessed, commitment_scheme, preprocessed_trace,
                   interaction_trace, trace_evals, fill_arg, check_arg>>
    /\ UNCHANGED storeVars

\* test_utils.rs:76-77: C::fill_interaction_trace(traces, &preprocessed_trace,
\* &lookup_elements)
FillInteractionTrace(r) ==
    /\ pc[r] = "fill_interaction"
    /\ fill_arg' = [fill_arg EXCEPT ![r] = lookup_elements[r]]
    /\ interaction_trace' = [interaction_trace EXCEPT ![r] =
          ChipFillInteractionTrace(main[r], preprocessed_trace[r], lookup_elements[r])]
    /\ steps' = [steps EXCEPT ![r] = Append(@, "fill_interaction")]
    /\ pc' = [pc EXCEPT ![r] = "commit_interaction"]
    /\ UNCHANGED <<main, custom_preprocessed, commitment_scheme, prover_channel,
                   lookup_elements, preprocessed_trace, trace_evals, check_arg>>
    /\ UNCHANGED storeVars

\* test_utils.rs:78-87: the interaction trace is committed, and commit_traces
\* returns
CommitInteraction(r) ==
    /\ pc[r] = "commit_interaction"
    /\ LET root == MerkleRoot(interaction_trace[r])
       IN /\ commitment_scheme' = [commitment_scheme EXCEPT ![r] = Append(@, root)]
          /\ prover_channel' = [prover_channel EXCEPT ![r] = MixRoot(@, root)]
    /\ steps' = [steps EXCEPT ![r] = Append(@, "commit_interaction")]
    /\ pc' = [pc EXCEPT ![r] = "check"]
    /\ UNCHANGED <<main, custom_preprocessed, lookup_elements, preprocessed_trace,
                   interaction_trace, trace_evals, fill_arg, check_arg>>
    /\ UNCHANGED storeVars

\* assert_chip generating the preprocessed trace again instead of taking the
\* one commit_traces returned
CheckConstraintsRegenerated(r) ==
    /\ pc[r] = "check"
    /\ LET made == TracesNewPreprocessedTrace(main[r].log_size)
           evals == [tree \in 0..2 |->
                        CASE tree = 0 -> TracesCircleEvaluation(made.traces)
                          [] tree = 1 -> TracesCircleEvaluation(main[r])
                          [] tree = 2 -> interaction_trace[r]]
       IN IF made.result = "panic"
          THEN /\ pc' = [pc EXCEPT ![r] = "panicked"]
               /\ UNCHANGED <<trace_evals, check_arg>>
          ELSE /\ trace_evals' = [trace_evals EXCEPT ![r] = evals]
               /\ check_arg' = [check_arg EXCEPT ![r] = lookup_elements[r]]
               /\ pc' = [pc EXCEPT ![r] =
                     IF AssertConstraints(evals, main[r].log_size, lookup_elements[r]) = "ok"
                     THEN "done" ELSE "panicked"]
    /\ steps' = [steps EXCEPT ![r] = Append(@, "check_constraints")]
    /\ UNCHANGED <<main, custom_preprocessed, commitment_scheme, prover_channel,
                   lookup_elements, preprocessed_trace, interaction_trace, fill_arg>>
    /\ UNCHANGED storeVars

\* assert_chip drawing lookup elements anew for the constraint check
CheckConstraintsRedrawn(r) ==
    /\ pc[r] = "check"
    /\ LET evals == [tree \in 0..2 |->
                        CASE tree = 0 -> TracesCircleEvaluation(preprocessed_trace[r])
                          [] tree = 1 -> TracesCircleEvaluation(main[r])
                          [] tree = 2 -> interaction_trace[r]]
           redrawn == LookupElementsDraw(prover_channel[r]).elements
       IN /\ trace_evals' = [trace_evals EXCEPT ![r] = evals]
          /\ check_arg' = [check_arg EXCEPT ![r] = redrawn]
          /\ pc' = [pc EXCEPT ![r] =
                IF AssertConstraints(evals, main[r].log_size, redrawn) = "ok"
                THEN "done" ELSE "panicked"]
    /\ steps' = [steps EXCEPT ![r] = Append(@, "check_constraints")]
    /\ UNCHANGED <<main, custom_preprocessed, commitment_scheme, prover_channel,
                   lookup_elements, preprocessed_trace, interaction_trace, fill_arg>>
    /\ UNCHANGED storeVars

\* assert_chip going on whatever assert_constraints found
CheckConstraintsUnchecked(r) ==
    /\ pc[r] = "check"
    /\ LET evals == [tree \in 0..2 |->
                        CASE tree = 0 -> TracesCircleEvaluation(preprocessed_trace[r])
                          [] tree = 1 -> TracesCircleEvaluation(main[r])
                          [] tree = 2 -> interaction_trace[r]]
       IN /\ trace_evals' = [trace_evals EXCEPT ![r] = evals]
          /\ check_arg' = [check_arg EXCEPT ![r] = lookup_elements[r]]
          /\ pc' = [pc EXCEPT ![r] = "done"]
    /\ steps' = [steps EXCEPT ![r] = Append(@, "check_constraints")]
    /\ UNCHANGED <<main, custom_preprocessed, commitment_scheme, prover_channel,
                   lookup_elements, preprocessed_trace, interaction_trace, fill_arg>>
    /\ UNCHANGED storeVars

\* test_utils.rs:102-125: the three trees are evaluated, interpolated and
\* handed to assert_constraints with C::add_constraints(.., &lookup_elements)
CheckConstraints(r) ==
    /\ pc[r] = "check"
    /\ LET evals == [tree \in 0..2 |->
                        CASE tree = 0 -> TracesCircleEvaluation(preprocessed_trace[r])
                          [] tree = 1 -> TracesCircleEvaluation(main[r])
                          [] tree = 2 -> interaction_trace[r]]
       IN /\ trace_evals' = [trace_evals EXCEPT ![r] = evals]
          /\ check_arg' = [check_arg EXCEPT ![r] = lookup_elements[r]]
          /\ pc' = [pc EXCEPT ![r] =
                IF AssertConstraints(evals, main[r].log_size, lookup_elements[r]) = "ok"
                THEN "done" ELSE "panicked"]
    /\ steps' = [steps EXCEPT ![r] = Append(@, "check_constraints")]
    /\ UNCHANGED <<main, custom_preprocessed, commitment_scheme, prover_channel,
                   lookup_elements, preprocessed_trace, interaction_trace, fill_arg>>
    /\ UNCHANGED storeVars

-----------------------------------------------------------------------------
(* Inputs of the pipeline *)

\* log sizes of the main traces handed to assert_chip
PipelineLogSizes == {LOG_N_LANES, MIN_PREPROCESSED_LOG_SIZE}

\* what the test that calls assert_chip wrote: nothing, or one row of one column
FilledSamples(t) ==
    {t} \cup
    {TracesFillColumns(t, row, ByteSeq(ColumnSize(col), seed), col).traces :
        row \in RowSamples(t), col \in {"IsAdd", "ValueA"}, seed \in {1, 2}}

\* main traces: built by Traces::new and fill_columns
MainSamples ==
    UNION {FilledSamples(TracesNew(log_size).traces) : log_size \in PipelineLogSizes}

\* custom_preprocessed: None, or Some of a preprocessed trace of 2^8 or 2^9 rows
CustomSamples ==
    {NoTraces} \cup
    {TracesNewPreprocessedTrace(log_size).traces :
        log_size \in MIN_PREPROCESSED_LOG_SIZE..(MIN_PREPROCESSED_LOG_SIZE + 1)}

\* the trace store is not exercised while the pipeline runs
StoreIdle ==
    /\ traces = NoTraces
    /\ status = "idle"
    /\ last = NoCall
    /\ nops = 0

\* one run of assert_chip, on any of the sampled inputs
PipelineInit ==
    /\ StoreIdle
    /\ pc = [r \in RunIds |-> IF r = "a" THEN "start" ELSE "idle"]
    /\ main \in [RunIds -> MainSamples \cup {NoTraces}]
    /\ custom_preprocessed \in [RunIds -> CustomSamples]
    /\ \A r \in RunIds : (pc[r] = "idle") = (main[r] = NoTraces)
    /\ \A r \in RunIds : pc[r] = "idle" => custom_preprocessed[r] = NoTraces
    /\ commitment_scheme = [r \in RunIds |-> <<>>]
    /\ prover_channel = [r \in RunIds |-> NoValue]
    /\ lookup_elements = [r \in RunIds |-> NoValue]
    /\ preprocessed_trace = [r \in RunIds |-> NoTraces]
    /\ interaction_trace = [r \in RunIds |-> NoEvals]
    /\ trace_evals = [r \in RunIds |-> NoEvals]
    /\ fill_arg = [r \in RunIds |-> NoValue]
    /\ check_arg = [r \in RunIds |-> NoValue]
    /\ steps = [r \in RunIds |-> <<>>]

PipelineNext ==
    \/ \E r \in RunIds : Begin(r)
    \/ \E r \in RunIds : CommitPreprocessed(r)
    \/ \E r \in RunIds : CommitMain(r)
    \/ \E r \in RunIds : DrawLookupElements(r)
    \/ \E r \in RunIds : FillInteractionTrace(r)
    \/ \E r \in RunIds : CommitInteraction(r)
    \/ \E r \in RunIds : CheckConstraints(r)

\* the pipeline: one call of assert_chip
PipelineSpec == PipelineInit /\ [][PipelineNext]_vars

\* main traces of the two concurrent calls
TwoRunsMainSamples ==
    {TracesNew(LOG_N_LANES).traces,
     TracesFillColumns(TracesNew(LOG_N_LANES).traces, 0,
                       ByteSeq(ColumnSize("ValueA"), 1), "ValueA").traces,
     TracesNew(MIN_PREPROCESSED_LOG_SIZE).traces}

\* custom_preprocessed of the two concurrent calls
TwoRunsCustomSamples ==
    {NoTraces, TracesNewPreprocessedTrace(MIN_PREPROCESSED_LOG_SIZE).traces}

\* two calls of assert_chip, each on any of the sampled inputs
TwoRunsInit ==
    /\ StoreIdle
    /\ pc = [r \in RunIds |-> "start"]
    /\ main \in [RunIds -> TwoRunsMainSamples]
    /\ custom_preprocessed \in [RunIds -> TwoRunsCustomSamples]
    /\ commitment_scheme = [r \in RunIds |-> <<>>]
    /\ prover_channel = [r \in RunIds |-> NoValue]
    /\ lookup_elements = [r \in RunIds |-> NoValue]
    /\ preprocessed_trace = [r \in RunIds |-> NoTraces]
    /\ interaction_trace = [r \in RunIds |-> NoEvals]
    /\ trace_evals = [r \in RunIds |-> NoEvals]
    /\ fill_arg = [r \in RunIds |-> NoValue]
    /\ check_arg = [r \in RunIds |-> NoValue]
    /\ steps = [r \in RunIds |-> <<>>]

\* two calls of assert_chip whose steps interleave in any way
TwoRunsSpec == TwoRunsInit /\ [][PipelineNext]_vars

Init ==
    /\ traces = NoTraces
    /\ status = "init"
    /\ last = NoCall
    /\ nops = 0
    /\ PipeIdle

Next ==
    \/ \E log_size \in 0..MaxLogSize : New(log_size)
    \/ \E log_size \in 0..MaxLogSize : NewPreprocessedTrace(log_size)
    \/ \E row \in RowSamples(traces), col \in Columns, N \in 0..MaxValueLen :
          DoColumn(row, col, N)
    \/ \E row \in RowSamples(traces), col \in Columns, N \in 0..MaxValueLen :
          DoColumnMut(row, col, N)
    \/ \E row \in RowSamples(traces), col \in Columns, n \in 0..MaxValueLen :
          \E value \in ValueSamples(n) : DoFillColumns(row, value, col)
    \/ \E row \in RowSamples(traces), col \in Columns, n \in 0..MaxValueLen :
          \E value \in ValueSamples(n), selector \in BOOLEAN :
              DoFillEffectiveColumns(row, value, col, selector)
    \/ \E col \in Columns, N \in 0..MaxValueLen : DoGetBaseColumn(col, N)
    \/ DoCircleEvaluation
    \/ \E closure \in ConstraintClosures : DoAssertAsOriginalTrace(closure)

\* the trace store: a constructor, then up to MaxOps calls
Spec == Init /\ [][Next]_vars

\* either a trace store under test or one call of assert_chip
AllInit == Init \/ PipelineInit

AllNext == Next \/ PipelineNext

\* both ways to check a trace: the calls on Traces, and assert_chip
AllSpec == AllInit /\ [][AllNext]_vars

-----------------------------------------------------------------------------
(* Properties of the pipeline, checked under PipelineSpec *)

\* the steps of a complete run of assert_chip
PipelineOrder ==
    <<"commit_preprocessed", "commit_main", "draw", "fill_interaction",
      "commit_interaction", "check_constraints">>

IsPrefix(s, t) ==
    /\ Len(s) <= Len(t)
    /\ \A k \in 1..Len(s) : s[k] = t[k]

\* the transcript right after the first two roots of run r have been mixed in
TranscriptAfterMain(r) ==
    MixRoot(MixRoot(ChannelDefault, commitment_scheme[r][1]), commitment_scheme[r][2])

\* C1: the steps of a run occur in the order commit preprocessed, commit main,
\* draw, fill interaction, commit interaction, check constraints, each at most
\* once and none skipped; a run that completes has performed all six; and the
\* lookup elements are the ones drawn from the transcript that holds the
\* preprocessed and then the main commitment.
C1_StepsInOrder ==
    \A r \in RunIds :
        /\ IsPrefix(steps[r], PipelineOrder)
        /\ pc[r] = "done" => steps[r] = PipelineOrder
        /\ lookup_elements[r] # NoValue =>
              /\ Len(commitment_scheme[r]) >= 2
              /\ lookup_elements[r] = LookupElementsDraw(TranscriptAfterMain(r)).elements

\* a run that went through all six steps
C1_Witness ==
    \E r \in RunIds : pc[r] = "done" /\ Len(steps[r]) = 6 /\ lookup_elements[r] # NoValue

C3_SameLookupElements ==
    [][\A r \in RunIds :
          /\ lookup_elements[r] # NoValue => lookup_elements'[r] = lookup_elements[r]
          /\ fill_arg'[r] # NoValue => fill_arg'[r] = lookup_elements'[r]
          /\ check_arg'[r] # NoValue =>
                /\ check_arg'[r] = fill_arg'[r]
                /\ check_arg'[r] = lookup_elements'[r]]_vars

\* both chip calls of a run have been made
C3_Witness ==
    \E r \in RunIds : fill_arg[r] # NoValue /\ check_arg[r] # NoValue

\* some identity registered by the chip does not vanish somewhere on the
\* evaluations run r checked
SomeIdentityFails(r) ==
    \E i \in 0..(2 ^ main[r].log_size - 1) :
        \E k \in DOMAIN ChipAddConstraints(trace_evals[r], i, check_arg[r]) :
            ~ChipAddConstraints(trace_evals[r], i, check_arg[r])[k]

\* C4: the constraint check completes normally only if every identity
\* vanishes at every row; when some identity does not vanish the run panics.
C4_ConstraintFailureFatal ==
    \A r \in RunIds :
        /\ pc[r] = "done" => trace_evals[r] # NoEvals /\ ~SomeIdentityFails(r)
        /\ (trace_evals[r] # NoEvals /\ SomeIdentityFails(r)) => pc[r] = "panicked"

\* a run whose check found a non-vanishing identity
C4_Witness ==
    \E r \in RunIds :
        trace_evals[r] # NoEvals /\ SomeIdentityFails(r) /\ pc[r] = "panicked"

-----------------------------------------------------------------------------
(* Properties of the trace store, checked under Spec *)

\* the slots of column col in trace t
ColumnSlots(col) == ColumnOffset(col)..(ColumnOffset(col) + ColumnSize(col) - 1)

\* C5: after a successful fill_columns(row, v, col), column(row, col) returns
\* v converted element-wise to field elements; and on a trace of the main
\* schema fill_columns of a slice of the column's size does succeed.
C5_FillThenColumn ==
    last.op = "fill_columns" =>
        /\ last.result = "ok" =>
              TracesColumn(traces, last.row, last.col, ColumnSize(last.col)) =
                  [result |-> "ok",
                   out |-> [i \in 0..(ColumnSize(last.col) - 1) |-> last.value[i] % P]]
        /\ (last.n = ColumnSize(last.col) /\ VecLen(traces.cols) = COLUMNS_NUM) =>
              last.result = "ok"

\* a four-byte slice written into ValueA
C5_Witness ==
    /\ last.op = "fill_columns"
    /\ last.result = "ok"
    /\ last.col = "ValueA"
    /\ last.row > 0

\* C6: fill_effective_columns with selector true leaves every slot of the
\* column at the row zero; with selector false it ends as fill_columns does, in
\* the same trace.
C6_SelectorLaw ==
    [][last'.op = "fill_effective_columns" =>
          /\ (last'.selector /\ last'.result = "ok") =>
                \A c \in ColumnSlots(last'.col) : traces'.cols[c][last'.row] = BaseFieldZero
          /\ ~last'.selector =>
                /\ traces' = TracesFillColumns(traces, last'.row, last'.value, last'.col).traces
                /\ last'.result =
                      TracesFillColumns(traces, last'.row, last'.value, last'.col).result]_vars

\* selector true on a slot that held one (row 0 of the first column of a
\* preprocessed trace)
C6_Witness ==
    /\ last.op = "fill_effective_columns"
    /\ last.selector
    /\ last.result = "ok"
    /\ VecLen(traces.cols) = PREPROCESSED_COLUMNS_NUM
    /\ last.col = "IsAdd"
    /\ last.row = 0
    /\ traces.cols[0][0] = BaseFieldZero

SizedCalls ==
    {"column", "column_mut", "fill_columns", "fill_effective_columns", "get_base_column"}

\* C7: a call of column, column_mut, fill_columns, fill_effective_columns or
\* get_base_column whose length or width differs from the column's size
\* panics, and leaves the trace as it was.
C7_SizeMismatchFatal ==
    [][(last'.op \in SizedCalls /\ last'.n # ColumnSize(last'.col)) =>
          /\ last'.result = "panic"
          /\ status' = "panicked"
          /\ traces' = traces]_vars

\* a write of too short a slice that panicked
C7_Witness ==
    /\ last.op = "fill_columns"
    /\ last.n > 0
    /\ last.n < ColumnSize(last.col)
    /\ last.result = "panic"

\* C8: Traces::new(log_size) that succeeds yields COLUMNS_NUM columns of
\* 2^log_size field zeros and records log_size.
C8_NewZeroed ==
    (last.op = "new" /\ last.result = "ok") =>
        /\ DOMAIN traces.cols = 0..(COLUMNS_NUM - 1)
        /\ \A c \in DOMAIN traces.cols :
              /\ DOMAIN traces.cols[c] = 0..(2 ^ last.log_size - 1)
              /\ \A row \in DOMAIN traces.cols[c] : traces.cols[c][row] = BaseFieldZero
        /\ traces.log_size = last.log_size

\* a zeroed main trace of more than the smallest size
C8_Witness ==
    /\ last.op = "new"
    /\ last.result = "ok"
    /\ last.log_size > LOG_N_LANES

\* C9: new_preprocessed_trace(log_size) with log_size >= 8 succeeds; IsFirst is
\* one at row 0 and zero elsewhere, Range256 holds i at the rows i < 256 and
\* zero from row 256 on, every other column is zero.
C9_PreprocessedContent ==
    last.op = "new_preprocessed_trace" =>
        /\ last.log_size >= MIN_PREPROCESSED_LOG_SIZE => last.result = "ok"
        /\ last.result = "ok" =>
              /\ traces.log_size = last.log_size
              /\ DOMAIN traces.cols = 0..(PREPROCESSED_COLUMNS_NUM - 1)
              /\ \A c \in DOMAIN traces.cols :
                    /\ DOMAIN traces.cols[c] = 0..(2 ^ last.log_size - 1)
                    /\ \A row \in DOMAIN traces.cols[c] :
                          traces.cols[c][row] =
                              CASE c = PreprocessedOffset("IsFirst") ->
                                       IF row = 0 THEN 1 ELSE 0
                                [] c = PreprocessedOffset("Range256") ->
                                       IF row < 256 THEN row ELSE 0
                                [] OTHER -> 0

\* a preprocessed trace with rows beyond the 256 of the table
C9_Witness ==
    /\ last.op = "new_preprocessed_trace"
    /\ last.result = "ok"
    /\ last.log_size > MIN_PREPROCESSED_LOG_SIZE
    /\ traces.cols[PreprocessedOffset("Range256")][255] = 255

\* C10: Traces::new panics exactly when log_size < LOG_N_LANES,
\* new_preprocessed_trace exactly when log_size < LOG_N_LANES or log_size < 8;
\* a constructor that panics produces no trace.
C10_ConstructorPreconditions ==
    /\ last.op = "new" =>
          (last.result = "panic") = (last.log_size < LOG_N_LANES)
    /\ last.op = "new_preprocessed_trace" =>
          (last.result = "panic") = (last.log_size < LOG_N_LANES \/ last.log_size < 8)
    /\ (last.op \in {"new", "new_preprocessed_trace"} /\ last.result = "panic") =>
          traces = NoTraces /\ status = "panicked"
    /\ (last.op \in {"new", "new_preprocessed_trace"} /\ last.result = "ok") =>
          traces # NoTraces /\ status = "ready"

\* new_preprocessed_trace refused a log_size that Traces::new accepts
C10_Witness ==
    /\ last.op = "new_preprocessed_trace"
    /\ last.result = "panic"
    /\ last.log_size >= LOG_N_LANES

\* the calls on an existing trace that return it to the caller
TraceCalls == SizedCalls \cup {"circle_evaluation"}

ReadOnlyCalls == {"column", "get_base_column", "circle_evaluation"}

\* C11: no call of column, column_mut, fill_columns, fill_effective_columns,
\* get_base_column or circle_evaluation changes the number of columns, the
\* length 2^log_size of any column or the recorded log_size, whether it
\* returns or panics; column, get_base_column and circle_evaluation leave
\* every cell as it was.
C11_NeverResized ==
    [][(status = "ready" /\ last'.op \in TraceCalls) =>
          /\ traces'.log_size = traces.log_size
          /\ DOMAIN traces'.cols = DOMAIN traces.cols
          /\ \A c \in DOMAIN traces.cols :
                /\ DOMAIN traces'.cols[c] = DOMAIN traces.cols[c]
                /\ DOMAIN traces'.cols[c] = 0..(2 ^ traces.log_size - 1)
          /\ last'.op \in ReadOnlyCalls => traces' = traces]_vars

\* a write through column_mut on a trace of the main schema
C11_Witness ==
    /\ last.op = "column_mut"
    /\ last.result = "ok"
    /\ VecLen(traces.cols) = COLUMNS_NUM
    /\ traces.cols[ColumnOffset(last.col)][last.row] = P - 1

\* C12 (as stated): assert_as_original_trace checks the constraints against
\* the main trace, an empty preprocessed trace and an empty interaction trace.
C12_ShortcutUsesEmptyTraces ==
    (last.op = "assert_as_original_trace" /\ last.out # NoValue) =>
        /\ VecLen(last.out.evals[0]) = 0
        /\ VecLen(last.out.evals[1]) > 0
        /\ VecLen(last.out.evals[2]) = 0

\* the row indices of a column of n rows after the reordering: position j
\* holds the index of the row whose value the reordering puts at j
ReorderIndices(n) == ReorderColumn([k \in 0..(n - 1) |-> k])

\* sigma is a bijection on 0..n-1
IsPermutation(sigma, n) ==
    /\ DOMAIN sigma = 0..(n - 1)
    /\ {sigma[j] : j \in DOMAIN sigma} = 0..(n - 1)

\* C13: what get_base_column and circle_evaluation return for a column is the
\* column read through one bijection of the row indices, which depends on the
\* number of rows only: not on the values, and not on the column.
C13_ReorderIsPermutation ==
    LET n == 2 ^ traces.log_size
        sigma == ReorderIndices(n)
    IN /\ (last.op = "get_base_column" /\ last.result = "ok") =>
             /\ IsPermutation(sigma, n)
             /\ \A i \in 0..(ColumnSize(last.col) - 1) :
                   last.out[i] =
                       [j \in 0..(n - 1) |-> traces.cols[ColumnOffset(last.col) + i][sigma[j]]]
       /\ last.op = "circle_evaluation" =>
             /\ IsPermutation(sigma, n)
             /\ DOMAIN last.out = DOMAIN traces.cols
             /\ \A c \in DOMAIN traces.cols :
                   /\ last.out[c].domain = traces.log_size
                   /\ last.out[c].values = [j \in 0..(n - 1) |-> traces.cols[c][sigma[j]]]

\* the table column of a preprocessed trace, returned in another order
C13_Witness ==
    /\ last.op = "get_base_column"
    /\ last.result = "ok"
    /\ last.col = "CarryFlag"
    /\ last.out[0] # traces.cols[ColumnOffset("CarryFlag")]
    /\ \E j \in DOMAIN last.out[0] : last.out[0][j] = 255

\* C14: a successful fill_columns or fill_effective_columns at (row, col)
\* leaves in the slots of col at row the values written (zero under the
\* selector) and every other cell as it was.
C14_WriteFrame ==
    [][(last'.op \in {"fill_columns", "fill_effective_columns"} /\ last'.result = "ok") =>
          \A c \in DOMAIN traces.cols :
              \A row \in DOMAIN traces.cols[c] :
                  traces'.cols[c][row] =
                      IF c \in ColumnSlots(last'.col) /\ row = last'.row
                      THEN IF last'.selector THEN 0
                           ELSE last'.value[c - ColumnOffset(last'.col)] % P
                      ELSE traces.cols[c][row]]_vars

\* a write into the last row of a preprocessed trace, whose other cells still
\* hold the generated content
C14_Witness ==
    /\ last.op = "fill_columns"
    /\ last.result = "ok"
    /\ last.col = "IsAdd"
    /\ last.row = 255
    /\ VecLen(traces.cols) = PREPROCESSED_COLUMNS_NUM
    /\ traces.cols[0][0] = 1
    /\ traces.cols[1][255] = 255
    /\ traces.cols[0][255] = last.value[0]

\* C15: the three trees assert_chip checks are the trees commit_traces
\* committed, in the order preprocessed, main, interaction: the preprocessed
\* trace is the custom one when supplied and the one generated for the main
\* trace's log_size otherwise, the main trace is the committed one, and the
\* interaction trace is what fill_interaction_trace returned.
C15_CheckedTreesAreCommitted ==
    \A r \in RunIds :
        trace_evals[r] # NoEvals =>
            /\ Len(commitment_scheme[r]) = 3
            /\ \A tree \in 0..2 :
                  commitment_scheme[r][tree + 1] = MerkleRoot(trace_evals[r][tree])
            /\ preprocessed_trace[r] =
                  IF custom_preprocessed[r] # NoTraces THEN custom_preprocessed[r]
                  ELSE TracesNewPreprocessedTrace(main[r].log_size).traces
            /\ trace_evals[r][0] = TracesCircleEvaluation(preprocessed_trace[r])
            /\ trace_evals[r][1] = TracesCircleEvaluation(main[r])
            /\ trace_evals[r][2] = interaction_trace[r]
            /\ interaction_trace[r] =
                  ChipFillInteractionTrace(main[r], preprocessed_trace[r], fill_arg[r])

\* a run checked against a custom preprocessed trace that differs from the
\* one that would have been generated
C15_Witness ==
    \E r \in RunIds :
        /\ trace_evals[r] # NoEvals
        /\ custom_preprocessed[r] # NoTraces
        /\ main[r].log_size = MIN_PREPROCESSED_LOG_SIZE
        /\ custom_preprocessed[r].log_size > main[r].log_size
        /\ pc[r] = "done"

OwnChallenge(r) ==
    LookupElementsDraw(
        MixRoot(MixRoot(ChannelDefault,
                        MerkleRoot(TracesCircleEvaluation(preprocessed_trace[r]))),
                MerkleRoot(TracesCircleEvaluation(main[r])))).elements

\* C17: with two calls of assert_chip interleaved in any way, a step of one
\* leaves the other's commitment scheme, transcript and lookup elements as
\* they were; the lookup elements of a run are those of a fresh transcript
\* that absorbed that run's preprocessed and main commitment; two runs on
\* equal preprocessed and main traces draw equal lookup elements.
C17_RunsIndependent ==
    /\ [](\A r \in RunIds :
             lookup_elements[r] # NoValue => lookup_elements[r] = OwnChallenge(r))
    /\ [](\A r1, r2 \in RunIds :
             (/\ lookup_elements[r1] # NoValue
              /\ lookup_elements[r2] # NoValue
              /\ main[r1] = main[r2]
              /\ preprocessed_trace[r1] = preprocessed_trace[r2]) =>
                 lookup_elements[r1] = lookup_elements[r2])
    /\ [][\A r \in RunIds :
             pc'[r] = pc[r] =>
                 /\ commitment_scheme'[r] = commitment_scheme[r]
                 /\ prover_channel'[r] = prover_channel[r]
                 /\ lookup_elements'[r] = lookup_elements[r]
                 /\ preprocessed_trace'[r] = preprocessed_trace[r]
                 /\ interaction_trace'[r] = interaction_trace[r]]_vars

\* two runs on equal traces at different positions, one finished and one
\* about to fill its interaction trace, both with lookup elements drawn
C17_Witness ==
    /\ lookup_elements["a"] # NoValue
    /\ lookup_elements["b"] # NoValue
    /\ main["a"] = main["b"]
    /\ preprocessed_trace["a"] = preprocessed_trace["b"]
    /\ pc["a"] = "done"
    /\ pc["b"] = "fill_interaction"

====
